---- MODULE Spec2Model ----
(***************************************************************************)
(* scx_loader configuration: discovery of the configuration file, parsing  *)
(* of its content, the built-in configuration and the resolution of the    *)
(* scheduler flags for a (scheduler, mode) pair (config.rs).               *)
(***************************************************************************)
EXTENDS Integers, Sequences, FiniteSets, TLC

VARIABLES fs, config, call

vars == <<fs, config, call>>

----------------------------------------------------------------------------
(* Rust values *)

\* Option<T>: None is the empty sequence, Some(x) the one-element sequence.
None == <<>>

Some(x) == <<x>>

\* Result<T>
Ok(v) == [ok |-> TRUE, val |-> v]

Err(e) == [ok |-> FALSE, err |-> e]

\* HashMap::new()
EmptyMap == [k \in {} |-> None]

\* The variants matched exhaustively by get_default_scx_flags_for_mode.
SupportedSched == {"Bpfland", "Lavd", "Rusty"}

SchedMode == {"Auto", "Gaming", "LowLatency", "PowerSave"}

\* The fields of struct Sched.
SchedFields == {"auto_mode", "gaming_mode", "lowlatency_mode", "powersave_mode"}

\* Sched::default(): every field None.
DefaultSched == [f \in SchedFields |-> None]

\* Config::default()
DefaultConfig == [default_sched |-> None, default_mode |-> None, scheds |-> EmptyMap]

\* The canonical name of a scheduler.
get_name_from_scx(scx_sched) ==
    CASE scx_sched = "Bpfland" -> "scx_bpfland"
      [] scx_sched = "Lavd"    -> "scx_lavd"
      [] scx_sched = "Rusty"   -> "scx_rusty"

----------------------------------------------------------------------------
(* Flag resolution *)

\* Variant: the tokens of bpfland's PowerSave entry in the other order.
get_default_scx_flags_for_mode_reordered(scx_sched, sched_mode) ==
    CASE scx_sched = "Bpfland" ->
           (CASE sched_mode = "Gaming"     -> <<"-k", "-m", "performance">>
              [] sched_mode = "LowLatency" -> <<"--lowlatency">>
              [] sched_mode = "PowerSave"  -> <<"powersave", "-m">>
              [] sched_mode = "Auto"       -> <<>>)
      [] scx_sched = "Lavd" ->
           (CASE sched_mode \in {"Gaming", "LowLatency"} -> <<"--performance">>
              [] sched_mode = "PowerSave"                -> <<"--powersave">>
              [] sched_mode = "Auto"                     -> <<>>)
      [] scx_sched = "Rusty" -> <<>>

\* Variant: lavd taken for the scheduler without mode support.
get_default_scx_flags_for_mode_lavd_none(scx_sched, sched_mode) ==
    CASE scx_sched = "Bpfland" ->
           (CASE sched_mode = "Gaming"     -> <<"-k", "-m", "performance">>
              [] sched_mode = "LowLatency" -> <<"--lowlatency">>
              [] sched_mode = "PowerSave"  -> <<"-m", "powersave">>
              [] sched_mode = "Auto"       -> <<>>)
      [] scx_sched \in {"Lavd", "Rusty"} -> <<>>

get_default_scx_flags_for_mode(scx_sched, sched_mode) ==
    CASE scx_sched = "Bpfland" ->
           (CASE sched_mode = "Gaming"     -> <<"-k", "-m", "performance">>
              [] sched_mode = "LowLatency" -> <<"--lowlatency">>
              [] sched_mode = "PowerSave"  -> <<"-m", "powersave">>
              [] sched_mode = "Auto"       -> <<>>)
      [] scx_sched = "Lavd" ->
           (CASE sched_mode \in {"Gaming", "LowLatency"} -> <<"--performance">>
              [] sched_mode = "PowerSave"                -> <<"--powersave">>
              [] sched_mode = "Auto"                     -> <<>>)
      [] scx_sched = "Rusty" -> <<>>

extract_scx_flags_from_config(sched_config, sched_mode) ==
    CASE sched_mode = "Gaming"     -> sched_config.gaming_mode
      [] sched_mode = "LowLatency" -> sched_config.lowlatency_mode
      [] sched_mode = "PowerSave"  -> sched_config.powersave_mode
      [] sched_mode = "Auto"       -> sched_config.auto_mode

\* Option::unwrap_or
unwrap_or(opt, default) == IF opt = None THEN default ELSE opt[1]

\* Variant: an empty list is taken for an absent field.
get_scx_flags_for_mode_empty_falls_back(cfg, scx_sched, sched_mode) ==
    IF get_name_from_scx(scx_sched) \in DOMAIN cfg.scheds
    THEN LET sched_config == cfg.scheds[get_name_from_scx(scx_sched)]
             scx_flags    == extract_scx_flags_from_config(sched_config, sched_mode)
         IN  IF scx_flags = None \/ scx_flags[1] = <<>>
             THEN get_default_scx_flags_for_mode(scx_sched, sched_mode)
             ELSE scx_flags[1]
    ELSE get_default_scx_flags_for_mode(scx_sched, sched_mode)

\* Variant: fallback per scheduler; an absent field of an entry gives no flags.
get_scx_flags_for_mode_per_sched(cfg, scx_sched, sched_mode) ==
    IF get_name_from_scx(scx_sched) \in DOMAIN cfg.scheds
    THEN LET sched_config == cfg.scheds[get_name_from_scx(scx_sched)]
             scx_flags    == extract_scx_flags_from_config(sched_config, sched_mode)
         IN  unwrap_or(scx_flags, <<>>)
    ELSE get_default_scx_flags_for_mode(scx_sched, sched_mode)

\* Variant: without an entry of its own a scheduler takes the flags of some
\* other entry.
get_scx_flags_for_mode_any_entry(cfg, scx_sched, sched_mode) ==
    LET name == IF get_name_from_scx(scx_sched) \in DOMAIN cfg.scheds
                THEN get_name_from_scx(scx_sched)
                ELSE IF "scx_other" \in DOMAIN cfg.scheds THEN "scx_other" ELSE ""
    IN  IF name # ""
        THEN unwrap_or(extract_scx_flags_from_config(cfg.scheds[name], sched_mode),
                       get_default_scx_flags_for_mode(scx_sched, sched_mode))
        ELSE get_default_scx_flags_for_mode(scx_sched, sched_mode)

get_scx_flags_for_mode(cfg, scx_sched, sched_mode) ==
    IF get_name_from_scx(scx_sched) \in DOMAIN cfg.scheds
    THEN LET sched_config == cfg.scheds[get_name_from_scx(scx_sched)]
             scx_flags    == extract_scx_flags_from_config(sched_config, sched_mode)
         IN  unwrap_or(scx_flags, get_default_scx_flags_for_mode(scx_sched, sched_mode))
    ELSE get_default_scx_flags_for_mode(scx_sched, sched_mode)

\* Variant: the Gaming and LowLatency entries in each other's field.
get_default_sched_for_config_swapped(scx_sched) ==
    [auto_mode       |-> Some(get_default_scx_flags_for_mode(scx_sched, "Auto")),
     gaming_mode     |-> Some(get_default_scx_flags_for_mode(scx_sched, "LowLatency")),
     lowlatency_mode |-> Some(get_default_scx_flags_for_mode(scx_sched, "Gaming")),
     powersave_mode  |-> Some(get_default_scx_flags_for_mode(scx_sched, "PowerSave"))]

get_default_sched_for_config(scx_sched) ==
    [auto_mode       |-> Some(get_default_scx_flags_for_mode(scx_sched, "Auto")),
     gaming_mode     |-> Some(get_default_scx_flags_for_mode(scx_sched, "Gaming")),
     lowlatency_mode |-> Some(get_default_scx_flags_for_mode(scx_sched, "LowLatency")),
     powersave_mode  |-> Some(get_default_scx_flags_for_mode(scx_sched, "PowerSave"))]

\* Variant: no entry for scx_rusty.
get_default_config_no_rusty ==
    [default_sched |-> None,
     default_mode  |-> Some("Auto"),
     scheds        |-> ("scx_bpfland" :> get_default_sched_for_config("Bpfland"))
                    @@ ("scx_lavd"    :> get_default_sched_for_config("Lavd"))]

get_default_config ==
    [default_sched |-> None,
     default_mode  |-> Some("Auto"),
     scheds        |-> ("scx_bpfland" :> get_default_sched_for_config("Bpfland"))
                    @@ ("scx_rusty"   :> get_default_sched_for_config("Rusty"))
                    @@ ("scx_lavd"    :> get_default_sched_for_config("Lavd"))]

----------------------------------------------------------------------------
(* Bounded inputs of the resolver *)

\* Largest number of entries of config.scheds.
MaxEntries == 1

\* Keys of config.scheds: the canonical names and a name of no known scheduler.
KnownNames == {get_name_from_scx(s) : s \in SupportedSched}

SchedKeys == KnownNames \cup {"scx_other"}

\* Flag sequences a user sets: the empty one, and one with a repeated token
\* in an order that is not sorted.
UserFlags == {<<>>, <<"-m", "-k", "-m">>}

OptFlags == {None} \cup {Some(f) : f \in UserFlags}

Scheds == [SchedFields -> OptFlags]

Configs ==
    UNION {{[default_sched |-> None, default_mode |-> Some("Auto"), scheds |-> f] :
              f \in [D -> Scheds]} :
           D \in {D \in SUBSET SchedKeys : Cardinality(D) <= MaxEntries}}

----------------------------------------------------------------------------
(* Documents: a sequence of lines; the content of zero length has no line *)

Blank == [kind |-> "blank", key |-> "", val |-> <<>>]

\* A line that is not TOML.
Garbage == [kind |-> "garbage", key |-> "", val |-> <<>>]

\* default_mode = "m"
DefaultModeLine(m) == [kind |-> "default_mode", key |-> "default_mode", val |-> <<m>>]

\* [scheds.name]
TableLine(name) == [kind |-> "table", key |-> name, val |-> <<>>]

\* field = ["flag", ...]
FieldLine(field, flags) == [kind |-> "field", key |-> field, val |-> flags]

EmptyDoc == <<>>

BlankDoc == <<Blank>>

\* The document of test_default_config.
TestDefaultDoc ==
    <<Blank, DefaultModeLine("Auto"), Blank,
      TableLine("scx_bpfland"),
      FieldLine("auto_mode", <<>>),
      FieldLine("gaming_mode", <<"-k", "-m", "performance">>),
      FieldLine("lowlatency_mode", <<"--lowlatency">>),
      FieldLine("powersave_mode", <<"-m", "powersave">>),
      Blank,
      TableLine("scx_rusty"),
      FieldLine("auto_mode", <<>>),
      FieldLine("gaming_mode", <<>>),
      FieldLine("lowlatency_mode", <<>>),
      FieldLine("powersave_mode", <<>>),
      Blank,
      TableLine("scx_lavd"),
      FieldLine("auto_mode", <<>>),
      FieldLine("gaming_mode", <<"--performance">>),
      FieldLine("lowlatency_mode", <<"--performance">>),
      FieldLine("powersave_mode", <<"--powersave">>)>>

\* The document of test_simple_fallback_config_flags.
SimpleFallbackDoc == <<Blank, DefaultModeLine("Auto")>>

\* The document of test_sched_fallback_config_flags.
SchedFallbackDoc ==
    <<Blank, DefaultModeLine("Auto"), Blank,
      TableLine("scx_lavd"), FieldLine("auto_mode", <<"--help">>)>>

\* Names scx_lavd and sets none of its mode fields.
LavdOnlyDoc == <<TableLine("scx_lavd")>>

\* Sets a mode field to the empty list.
EmptyListDoc == <<TableLine("scx_bpfland"), FieldLine("gaming_mode", <<>>)>>

\* An entry under a name of no known scheduler.
UnknownKeyDoc == <<TableLine("scx_other"), FieldLine("gaming_mode", <<"--help">>)>>

MalformedDoc == <<DefaultModeLine("Auto"), Garbage>>

\* default_mode names no variant of SchedMode.
BadModeDoc == <<DefaultModeLine("Turbo")>>

\* The same table twice.
DuplicateTableDoc == <<TableLine("scx_lavd"), TableLine("scx_lavd")>>

Docs == {EmptyDoc, BlankDoc, TestDefaultDoc, SimpleFallbackDoc, SchedFallbackDoc,
         LavdOnlyDoc, EmptyListDoc, UnknownKeyDoc, MalformedDoc, BadModeDoc,
         DuplicateTableDoc}

----------------------------------------------------------------------------
(* The file system *)

check_paths == <<"/etc/scx_loader/config.toml", "/etc/scx_loader.toml">>

Paths == {check_paths[i] : i \in DOMAIN check_paths}

NoFile == [kind |-> "absent", content |-> <<>>]

\* Exists, and reading it to a string fails (a directory, no permission).
Unreadable == [kind |-> "unreadable", content |-> <<>>]

File(doc) == [kind |-> "file", content |-> doc]

FileStates == {NoFile, Unreadable} \cup {File(d) : d \in Docs}

\* Path::exists
exists(f, path) == f[path].kind # "absent"

\* fs::read_to_string
read_to_string(f, path) ==
    IF f[path].kind = "file" THEN Ok(f[path].content) ELSE Err("io error")

----------------------------------------------------------------------------
(* Parsing and discovery *)

\* One line of the document applied to the parser's state: the Config built
\* so far, the table the following keys belong to, and whether parsing failed.
toml_line(st, l) ==
    CASE l.kind = "blank"   -> st
      [] l.kind = "garbage" -> [st EXCEPT !.err = TRUE]
      [] l.kind = "default_mode" ->
           IF st.cur # "" THEN st  \* a key Sched does not have: skipped
           ELSE IF st.cfg.default_mode # None \/ l.val[1] \notin SchedMode
                THEN [st EXCEPT !.err = TRUE]
                ELSE [st EXCEPT !.cfg.default_mode = Some(l.val[1])]
      [] l.kind = "table" ->
           IF l.key \in DOMAIN st.cfg.scheds
           THEN [st EXCEPT !.err = TRUE]
           ELSE [st EXCEPT !.cfg.scheds = (l.key :> DefaultSched) @@ st.cfg.scheds,
                           !.cur = l.key]
      [] l.kind = "field" ->
           IF st.cur = "" THEN st  \* a key Config does not have: skipped
           ELSE IF st.cfg.scheds[st.cur][l.key] # None
                THEN [st EXCEPT !.err = TRUE]
                ELSE [st EXCEPT !.cfg.scheds[st.cur][l.key] = Some(l.val)]

RECURSIVE toml_lines(_, _, _)
toml_lines(doc, i, st) ==
    IF i > Len(doc) \/ st.err THEN st
    ELSE toml_lines(doc, i + 1, toml_line(st, doc[i]))

\* toml::from_str::<Config>: absent fields take Config::default().
toml_from_str(doc) ==
    LET st == toml_lines(doc, 1, [cfg |-> DefaultConfig, cur |-> "", err |-> FALSE])
    IN  IF st.err THEN Err("parse error") ELSE Ok(st.cfg)

\* Variant: no check for empty content.
parse_config_content_noempty(file_content) == toml_from_str(file_content)

parse_config_content(file_content) ==
    IF Len(file_content) = 0
    THEN Err("The config file is empty!")
    ELSE toml_from_str(file_content)

parse_config_file(f, filepath) ==
    LET file_content == read_to_string(f, filepath)
    IN  IF ~file_content.ok THEN file_content
        ELSE parse_config_content(file_content.val)

\* Variant: the paths checked from the last one.
RECURSIVE get_config_path_rev(_, _)
get_config_path_rev(f, i) ==
    IF i < 1 THEN Err("Failed to find config!")
    ELSE IF ~exists(f, check_paths[i]) THEN get_config_path_rev(f, i - 1)
    ELSE Ok(check_paths[i])

\* The loop of get_config_path from the i-th path on.
RECURSIVE get_config_path_from(_, _)
get_config_path_from(f, i) ==
    IF i > Len(check_paths) THEN Err("Failed to find config!")
    ELSE IF ~exists(f, check_paths[i]) THEN get_config_path_from(f, i + 1)
    ELSE Ok(check_paths[i])

get_config_path_last(f) == get_config_path_rev(f, Len(check_paths))

get_config_path(f) == get_config_path_from(f, 1)

\* Variant: a failed load falls back to the built-in Configuration too.
init_config_swallow(f) ==
    LET config_path == get_config_path(f)
    IN  IF config_path.ok /\ parse_config_file(f, config_path.val).ok
        THEN parse_config_file(f, config_path.val)
        ELSE Ok(get_default_config)

init_config(f) ==
    LET config_path == get_config_path(f)
    IN  IF config_path.ok
        THEN parse_config_file(f, config_path.val)
        ELSE Ok(get_default_config)

----------------------------------------------------------------------------
(* Operations *)

NoCall == [op |-> "none", arg |-> <<>>, ret |-> <<>>]

\* The process builds its Configuration, once.
InitConfig ==
    /\ config = None
    /\ LET ret == init_config(fs)
       IN  /\ call' = [op |-> "init_config", arg |-> <<>>, ret |-> ret]
           /\ config' = IF ret.ok THEN Some(ret.val) ELSE None
    /\ UNCHANGED fs

GetConfigPath ==
    /\ call' = [op |-> "get_config_path", arg |-> <<>>, ret |-> get_config_path(fs)]
    /\ UNCHANGED <<fs, config>>

ParseConfigFile ==
    /\ \E filepath \in Paths :
         call' = [op  |-> "parse_config_file",
                  arg |-> <<filepath>>,
                  ret |-> parse_config_file(fs, filepath)]
    /\ UNCHANGED <<fs, config>>

ParseConfigContent ==
    /\ \E file_content \in Docs :
         call' = [op  |-> "parse_config_content",
                  arg |-> <<file_content>>,
                  ret |-> parse_config_content(file_content)]
    /\ UNCHANGED <<fs, config>>

\* A caller resolves the flags of (scx_sched, sched_mode) against the
\* Configuration of the process.
GetScxFlagsForMode ==
    /\ config # None
    /\ \E scx_sched \in SupportedSched, sched_mode \in SchedMode :
         call' = [op  |-> "get_scx_flags_for_mode",
                  arg |-> <<scx_sched, sched_mode>>,
                  ret |-> get_scx_flags_for_mode(config[1], scx_sched, sched_mode)]
    /\ UNCHANGED <<fs, config>>

\* A caller reads the Default Table.
GetDefaultScxFlagsForMode ==
    /\ \E scx_sched \in SupportedSched, sched_mode \in SchedMode :
         call' = [op  |-> "get_default_scx_flags_for_mode",
                  arg |-> <<scx_sched, sched_mode>>,
                  ret |-> get_default_scx_flags_for_mode(scx_sched, sched_mode)]
    /\ UNCHANGED <<fs, config>>

\* The loader: any state of the two discovery paths, no Configuration yet.
Init ==
    /\ fs \in [Paths -> FileStates]
    /\ config = None
    /\ call = NoCall

Next ==
    \/ InitConfig
    \/ GetConfigPath
    \/ ParseConfigFile
    \/ ParseConfigContent
    \/ GetScxFlagsForMode
    \/ GetDefaultScxFlagsForMode

Spec == Init /\ [][Next]_vars

\* The resolver over every bounded Configuration.
InitResolve ==
    /\ fs = [p \in Paths |-> NoFile]
    /\ config \in {Some(c) : c \in Configs}
    /\ call = NoCall

NextResolve == GetScxFlagsForMode

SpecResolve == InitResolve /\ [][NextResolve]_vars

----------------------------------------------------------------------------
(* Properties *)

\* The field of Sched a mode selects.
ModeField(m) ==
    CASE m = "Auto"       -> "auto_mode"
      [] m = "Gaming"     -> "gaming_mode"
      [] m = "LowLatency" -> "lowlatency_mode"
      [] m = "PowerSave"  -> "powersave_mode"

\* The policy table of the Default Table, row by row.
PolicyTable(s, m) ==
    CASE s = "Bpfland" /\ m = "Gaming"     -> <<"-k", "-m", "performance">>
      [] s = "Bpfland" /\ m = "LowLatency" -> <<"--lowlatency">>
      [] s = "Bpfland" /\ m = "PowerSave"  -> <<"-m", "powersave">>
      [] s = "Lavd"    /\ m = "Gaming"     -> <<"--performance">>
      [] s = "Lavd"    /\ m = "LowLatency" -> <<"--performance">>
      [] s = "Lavd"    /\ m = "PowerSave"  -> <<"--powersave">>
      [] s = "Rusty"   /\ m # "Auto"       -> <<>>
      [] m = "Auto"                        -> <<>>

Path1 == "/etc/scx_loader/config.toml"

Path2 == "/etc/scx_loader.toml"

SomeExists == exists(fs, Path1) \/ exists(fs, Path2)

\* The first discovery path that exists (when one does).
FirstExisting == IF exists(fs, Path1) THEN Path1 ELSE Path2

Resolved == call.op = "get_scx_flags_for_mode"

\* The entry of the resolved scheduler is there and its field for the
\* resolved mode is present.
FieldPresent ==
    /\ get_name_from_scx(call.arg[1]) \in DOMAIN config[1].scheds
    /\ config[1].scheds[get_name_from_scx(call.arg[1])][ModeField(call.arg[2])] # None

\* The Configuration without its entries under names of no known scheduler.
StripUnknown(c) ==
    [c EXCEPT !.scheds = [k \in (DOMAIN c.scheds) \cap KnownNames |-> c.scheds[k]]]

\* Configurations that differ from c only in the entry under "scx_other":
\* removed, or replaced by an entry with every field absent, empty or set.
UnknownVariants(c) ==
    {StripUnknown(c)} \cup
    {[c EXCEPT !.scheds = ("scx_other" :> [f \in SchedFields |-> o])
                          @@ StripUnknown(c).scheds] : o \in OptFlags}

\* C1: when config.scheds has an entry under the scheduler's canonical name
\* and the entry's field for the mode is present, get_scx_flags_for_mode
\* returns exactly that sequence, the empty one included.
C1_PresentFieldVerbatim ==
    Resolved /\ FieldPresent =>
        call.ret = config[1].scheds[get_name_from_scx(call.arg[1])][ModeField(call.arg[2])][1]

\* An explicit empty list where the Default Table has flags gives no flags.
C1_Witness ==
    /\ Resolved
    /\ call.arg = <<"Bpfland", "Gaming">>
    /\ FieldPresent
    /\ config[1].scheds["scx_bpfland"].gaming_mode = Some(<<>>)
    /\ call.ret = <<>>

\* C2: when config.scheds has no entry under the scheduler's canonical name,
\* or the entry's field for the mode is absent, get_scx_flags_for_mode returns
\* the Default Table entry, whatever the entry's other fields are.
C2_FallbackPerField ==
    Resolved /\ ~FieldPresent =>
        call.ret = get_default_scx_flags_for_mode(call.arg[1], call.arg[2])

\* An entry with the other three fields present and the resolved one absent.
C2_Witness ==
    /\ Resolved
    /\ call.arg = <<"Lavd", "Gaming">>
    /\ "scx_lavd" \in DOMAIN config[1].scheds
    /\ config[1].scheds["scx_lavd"].gaming_mode = None
    /\ \A f \in SchedFields \ {"gaming_mode"} : config[1].scheds["scx_lavd"][f] # None
    /\ call.ret = <<"--performance">>

\* C3: resolving against the built-in Configuration gives the Default Table
\* entry for every (scheduler, mode).
C3_BuiltinIsDefaultTable ==
    Resolved /\ config = Some(get_default_config) =>
        call.ret = get_default_scx_flags_for_mode(call.arg[1], call.arg[2])

C3_Witness ==
    /\ Resolved
    /\ ~SomeExists
    /\ config = Some(get_default_config)
    /\ call.arg = <<"Bpfland", "Gaming">>
    /\ call.ret = <<"-k", "-m", "performance">>

\* C4: get_default_scx_flags_for_mode returns, for every scheduler and mode,
\* the token sequence of the policy table.
C4_PolicyTable ==
    call.op = "get_default_scx_flags_for_mode" =>
        call.ret = PolicyTable(call.arg[1], call.arg[2])

C4_Witness ==
    /\ call.op = "get_default_scx_flags_for_mode"
    /\ call.arg = <<"Bpfland", "PowerSave">>
    /\ call.ret = <<"-m", "powersave">>

\* C5 as stated: init_config returns the built-in Configuration if and only
\* if no discovery path exists, and otherwise the result of loading the first
\* existing path.
C5_BuiltinIffNotFound ==
    call.op = "init_config" =>
        /\ (call.ret = Ok(get_default_config)) <=> ~SomeExists
        /\ SomeExists => call.ret = parse_config_file(fs, FirstExisting)

\* C5, amended: init_config returns the built-in Configuration when no
\* discovery path exists; when one exists its result is the result of loading
\* the first existing path, an error when that path cannot be read, is empty
\* or does not parse, whatever the other path holds.
C5_AbsorbsOnlyNotFound ==
    call.op = "init_config" =>
        /\ ~SomeExists => call.ret = Ok(get_default_config)
        /\ SomeExists =>
             /\ call.ret = parse_config_file(fs, FirstExisting)
             /\ fs[FirstExisting] \in {Unreadable, File(EmptyDoc), File(MalformedDoc),
                                       File(BadModeDoc), File(DuplicateTableDoc)}
                  => ~call.ret.ok /\ config = None

\* The first path cannot be read and the second holds a valid document.
C5_Witness ==
    /\ call.op = "init_config"
    /\ fs[Path1] = Unreadable
    /\ fs[Path2] = File(SimpleFallbackDoc)
    /\ ~call.ret.ok

\* C6: content of zero length is an error, for parse_config_content, for
\* parse_config_file on an existing empty file and for init_config when the
\* first existing path is an empty file.
C6_EmptyContentRejected ==
    /\ call.op = "parse_config_content" /\ Len(call.arg[1]) = 0 => ~call.ret.ok
    /\ call.op = "parse_config_file" /\ fs[call.arg[1]] = File(EmptyDoc) => ~call.ret.ok
    /\ call.op = "init_config" /\ SomeExists /\ fs[FirstExisting] = File(EmptyDoc)
         => ~call.ret.ok /\ config = None

C6_Witness ==
    /\ call.op = "init_config"
    /\ fs[Path1] = File(EmptyDoc)
    /\ fs[Path2] = NoFile
    /\ ~call.ret.ok
    /\ config = None

\* C7: get_config_path returns /etc/scx_loader/config.toml whenever it exists,
\* /etc/scx_loader.toml when only that one exists, and fails if and only if
\* neither exists.
C7_FirstExistingWins ==
    call.op = "get_config_path" =>
        /\ exists(fs, Path1) => call.ret = Ok(Path1)
        /\ ~exists(fs, Path1) /\ exists(fs, Path2) => call.ret = Ok(Path2)
        /\ ~call.ret.ok <=> ~exists(fs, Path1) /\ ~exists(fs, Path2)

\* Both paths exist.
C7_Witness ==
    /\ call.op = "get_config_path"
    /\ exists(fs, Path1)
    /\ exists(fs, Path2)
    /\ call.ret = Ok(Path1)

\* C8: the built-in Configuration has default_sched unset, default_mode Auto,
\* an entry for exactly scx_bpfland, scx_rusty and scx_lavd with every mode
\* field present and equal to the Default Table entry, and equals the parse
\* of the document that spells the Default Table out.
C8_BuiltinTotal ==
    call.op = "init_config" /\ ~SomeExists =>
        /\ call.ret.ok
        /\ call.ret.val.default_sched = None
        /\ call.ret.val.default_mode = Some("Auto")
        /\ DOMAIN call.ret.val.scheds = {"scx_bpfland", "scx_rusty", "scx_lavd"}
        /\ \A p \in {<<"scx_bpfland", "Bpfland">>, <<"scx_rusty", "Rusty">>,
                     <<"scx_lavd", "Lavd">>} :
             \A m \in SchedMode :
               call.ret.val.scheds[p[1]][ModeField(m)]
                 = Some(get_default_scx_flags_for_mode(p[2], m))
        /\ call.ret = parse_config_content(TestDefaultDoc)

C8_Witness ==
    /\ call.op = "init_config"
    /\ ~SomeExists
    /\ config # None
    /\ config[1].scheds["scx_rusty"].gaming_mode = Some(<<>>)
    /\ config[1].scheds["scx_lavd"].powersave_mode = Some(<<"--powersave">>)

\* C9: get_scx_flags_for_mode returns the same sequence for every
\* Configuration that differs only in entries under names of no known
\* scheduler.
C9_UnknownKeysInert ==
    Resolved =>
        \A c \in UnknownVariants(config[1]) :
            get_scx_flags_for_mode(c, call.arg[1], call.arg[2]) = call.ret

\* An entry under an unknown name that sets the resolved mode.
C9_Witness ==
    /\ Resolved
    /\ "scx_other" \in DOMAIN config[1].scheds
    /\ config[1].scheds["scx_other"].gaming_mode = Some(<<"-m", "-k", "-m">>)
    /\ call.arg = <<"Bpfland", "Gaming">>
    /\ call.ret = <<"-k", "-m", "performance">>

\* The Configuration names scx_lavd and sets none of its mode fields, and
\* the flags of scx_lavd were resolved.
LavdNamedOnly ==
    /\ Resolved
    /\ call.arg[1] = "Lavd"
    /\ "scx_lavd" \in DOMAIN config[1].scheds
    /\ config[1].scheds["scx_lavd"] = DefaultSched

\* C10 as stated: for a document that names scx_lavd without mode fields,
\* get_scx_flags_for_mode returns the empty sequence for every mode.
C10_LavdAlwaysEmpty == LavdNamedOnly => call.ret = <<>>

\* C10, amended: for such a document get_scx_flags_for_mode returns the row
\* of scx_lavd in the Default Table: --performance for Gaming and LowLatency,
\* --powersave for PowerSave, the empty sequence for Auto only.
C10_LavdDefaultRow ==
    LavdNamedOnly =>
        call.ret = (CASE call.arg[2] \in {"Gaming", "LowLatency"} -> <<"--performance">>
                      [] call.arg[2] = "PowerSave"                -> <<"--powersave">>
                      [] call.arg[2] = "Auto"                     -> <<>>)

C10_Witness ==
    /\ LavdNamedOnly
    /\ fs[FirstExisting] = File(LavdOnlyDoc)
    /\ call.arg[2] = "LowLatency"
    /\ call.ret = <<"--performance">>

====
